---- MODULE Spec2Model ----
(***************************************************************************)
(* A model of the FPGA lowering passes of DaCe:                            *)
(*   dace/transformation/interstate/fpga_transform_state.py                *)
(*       fpga_update, FPGATransformState.can_be_applied / apply            *)
(*   dace/transformation/auto/fpga.py                                      *)
(*       fpga_global_to_local, fpga_rr_interleave_containers_to_banks      *)
(*                                                                         *)
(* An SDFG is kept as a table of graphs: graph 1 is the top-level SDFG,    *)
(* the others are owned by NestedSDFG nodes (field sub).  arrays[k] is the *)
(* array catalog of graph k in insertion order, states[k] its states in    *)
(* insertion order, cedges the inter-state edges of the top-level graph.   *)
(* A state holds its nodes and its edges in insertion order.               *)
(***************************************************************************)
EXTENDS Integers, Sequences, FiniteSets, TLC

VARIABLES arrays, states, cedges, added, last, old, napply, passes

vars == <<arrays, states, cedges, added, last, old, napply, passes>>

(* ------------------------------ bounds --------------------------------- *)
MaxApplies == 2
MaxBanks == 4

(* ------------------------- program constants --------------------------- *)
MaxDims == 3
DeepDepth == 2
CopyVeclen == 1

Top == 1
NoNode == 0
NoBank == -1
Unbound == -1
Unresolved == -1
NoAccess == ""

(* ------------------------- sequence helpers ---------------------------- *)
Range(s) == {s[i] : i \in DOMAIN s}

RECURSIVE SumSeq(_)
SumSeq(s) == IF Len(s) = 0 THEN 0 ELSE Head(s) + SumSeq(Tail(s))


\* The function f with domain 1..n as the tuple of its values.
Tuple(f) == SubSeq(f, 1, Len(f))

(* ------------------------------ data model ----------------------------- *)
Desc(name, kind, transient, storage, sym, val) ==
  [name |-> name, kind |-> kind, transient |-> transient, storage |-> storage,
   sym |-> sym, val |-> val, bank |-> NoBank]

AN(id, data, scope) ==
  [id |-> id, type |-> "AccessNode", data |-> data, schedule |-> "",
   dims |-> 0, scope |-> scope, sub |-> 0]
ME(id, sched, dims, scope) ==
  [id |-> id, type |-> "MapEntry", data |-> "", schedule |-> sched,
   dims |-> dims, scope |-> scope, sub |-> 0]
MX(id, scope) ==
  [id |-> id, type |-> "MapExit", data |-> "", schedule |-> "",
   dims |-> 0, scope |-> scope, sub |-> 0]
TK(id, scope) ==
  [id |-> id, type |-> "Tasklet", data |-> "", schedule |-> "",
   dims |-> 0, scope |-> scope, sub |-> 0]
NS(id, sub, scope) ==
  [id |-> id, type |-> "NestedSDFG", data |-> "", schedule |-> "",
   dims |-> 0, scope |-> scope, sub |-> sub]

ED(src, sc, dst, dc, data, veclen, wcr) ==
  [src |-> src, src_conn |-> sc, dst |-> dst, dst_conn |-> dc,
   data |-> data, veclen |-> veclen, wcr |-> wcr]

ST(label, nodes, edges) ==
  [label |-> label, nodes |-> nodes, edges |-> edges, next |-> Len(nodes) + 1]

CE(src, dst, cond) == [src |-> src, dst |-> dst, cond |-> cond]

(* The graph as one value, for the operators that rewrite it. *)
G0 == [arrays |-> arrays, states |-> states, cedges |-> cedges, added |-> added]

\* sdfg.arrays[name]
HasArray(G, k, name) == \E i \in DOMAIN G.arrays[k] : G.arrays[k][i].name = name
IdxOf(G, k, name) == CHOOSE i \in DOMAIN G.arrays[k] : G.arrays[k][i].name = name
DescOf(G, k, name) == G.arrays[k][IdxOf(G, k, name)]

NodeOf(S, id) == CHOOSE n \in Range(S.nodes) : n.id = id
HasNode(S, id) == \E n \in Range(S.nodes) : n.id = id

(* ----------------------- input graphs (Init) --------------------------- *)
\* Host-side catalog of an SDFG that has not been lowered yet.
CatHost(xs, xk) ==
  << Desc("X", xk, FALSE, xs, "N", 0),
     Desc("Y", "Array", FALSE, "Default", "N", 0),
     Desc("Z", "Array", FALSE, "Default", "", 4),
     Desc("W", "Array", FALSE, "Default", "", 4),
     Desc("tmp", "Array", TRUE, "Default", "", 4) >>

S_empty(l) == ST(l, <<>>, <<>>)

S_tasklet(l) == ST(l, <<TK(1, 0)>>, <<>>)

\* in -> tasklet -> out
S_simple(l, in, out) ==
  ST(l, <<AN(1, in, 0), TK(2, 0), AN(3, out, 0)>>,
     <<ED(1, "", 2, "x", in, 1, FALSE), ED(2, "y", 3, "", out, 1, FALSE)>>)

\* X -> map[ tasklet -> tmp -> tasklet ] -> Y
S_map(l, sched, dims) ==
  ST(l, <<AN(1, "X", 0), ME(2, sched, dims, 0), TK(3, 2), AN(4, "tmp", 2),
          TK(5, 2), MX(6, 2), AN(7, "Y", 0)>>,
     <<ED(1, "", 2, "IN_X", "X", 1, FALSE), ED(2, "OUT_X", 3, "x", "X", 1, FALSE),
       ED(3, "y", 4, "", "tmp", 1, FALSE), ED(4, "", 5, "x", "tmp", 1, FALSE),
       ED(5, "y", 6, "IN_Y", "Y", 1, FALSE), ED(6, "OUT_Y", 7, "", "Y", 1, FALSE)>>)

\* X -> map so[ map si[ tasklet ] ] -> Y
S_map2(l, so, si, dims) ==
  ST(l, <<AN(1, "X", 0), ME(2, so, 1, 0), ME(3, si, dims, 2), TK(4, 3),
          MX(5, 3), MX(6, 2), AN(7, "Y", 0)>>,
     <<ED(1, "", 2, "IN_X", "X", 1, FALSE), ED(2, "OUT_X", 3, "IN_X", "X", 1, FALSE),
       ED(3, "OUT_X", 4, "x", "X", 1, FALSE), ED(4, "y", 5, "IN_Y", "Y", 1, FALSE),
       ED(5, "OUT_Y", 6, "IN_Y", "Y", 1, FALSE), ED(6, "OUT_Y", 7, "", "Y", 1, FALSE)>>)

\* X -> nested SDFG 2 (connectors a, b) -> Y
S_nest(l) ==
  ST(l, <<AN(1, "X", 0), NS(2, 2, 0), AN(3, "Y", 0)>>,
     <<ED(1, "", 2, "a", "X", 1, FALSE), ED(2, "b", 3, "", "Y", 1, FALSE)>>)

\* X -> nested SDFG 2 -> Z -> tasklet -> Y : the nested result Z is consumed
S_nestmid(l) ==
  ST(l, <<AN(1, "X", 0), NS(2, 2, 0), AN(3, "Z", 0), TK(4, 0), AN(5, "Y", 0)>>,
     <<ED(1, "", 2, "a", "X", 1, FALSE), ED(2, "b", 3, "", "Z", 1, FALSE),
       ED(3, "", 4, "x", "Z", 1, FALSE), ED(4, "y", 5, "", "Y", 1, FALSE)>>)

\* X -> map[ nested SDFG 2 -> tmp -> tasklet ] -> Y
S_mapnest(l, sched) ==
  ST(l, <<AN(1, "X", 0), ME(2, sched, 1, 0), NS(3, 2, 2), AN(4, "tmp", 2),
          TK(5, 2), MX(6, 2), AN(7, "Y", 0)>>,
     <<ED(1, "", 2, "IN_X", "X", 1, FALSE), ED(2, "OUT_X", 3, "a", "X", 1, FALSE),
       ED(3, "b", 4, "", "tmp", 1, FALSE), ED(4, "", 5, "x", "tmp", 1, FALSE),
       ED(5, "y", 6, "IN_Y", "Y", 1, FALSE), ED(6, "OUT_Y", 7, "", "Y", 1, FALSE)>>)

\* Catalog of a nested SDFG whose connectors are a and b.
CatInner(st) ==
  << Desc("a", "Array", FALSE, st, "", 4), Desc("b", "Array", FALSE, st, "", 4),
     Desc("t", "Array", TRUE, st, "", 4), Desc("u", "Array", TRUE, "Default", "", 4) >>

\* a -> tasklet -> b, the write to b optionally a WCR write
N_leaf(l, va, vb, wcr) ==
  ST(l, <<AN(1, "a", 0), TK(2, 0), AN(3, "b", 0)>>,
     <<ED(1, "", 2, "i", "a", va, FALSE), ED(2, "o", 3, "", "b", vb, wcr)>>)

\* a -> map[ tasklet -> t ] ... -> b with a scoped transient t
N_scoped(l, sched, va) ==
  ST(l, <<AN(1, "a", 0), ME(2, sched, 1, 0), TK(3, 2), AN(4, "t", 2), TK(5, 2),
          MX(6, 2), AN(7, "b", 0)>>,
     <<ED(1, "", 2, "IN_a", "a", va, FALSE), ED(2, "OUT_a", 3, "i", "a", va, FALSE),
       ED(3, "o", 4, "", "t", va, FALSE), ED(4, "", 5, "i", "t", va, FALSE),
       ED(5, "o", 6, "IN_b", "b", va, FALSE), ED(6, "OUT_b", 7, "", "b", va, FALSE)>>)

\* a -> nested SDFG 3 -> b, plus a scoped transient in a second state
N_mid(l, va) ==
  ST(l, <<AN(1, "a", 0), NS(2, 3, 0), AN(3, "b", 0)>>,
     <<ED(1, "", 2, "a", "a", va, FALSE), ED(2, "b", 3, "", "b", va, FALSE)>>)

Ctl(loop) ==
  <<CE(1, 2, "true"), CE(2, 3, "c"), CE(3, 2, "not c")>>
    \o (IF loop THEN <<CE(2, 2, "again")>> ELSE <<>>)

Graph(cat, sts, ctl, nested) ==
  [arrays |-> <<cat>> \o [i \in DOMAIN nested |-> nested[i].arrays],
   states |-> <<sts>> \o [i \in DOMAIN nested |-> nested[i].states],
   cedges |-> ctl, added |-> <<>>]

Schedules ==
  {"Default", "Sequential", "MPI", "CPU_Multicore", "GPU_Device",
   "GPU_ThreadBlock", "FPGA_Device"}

SecondStates == {S_empty("t"), S_tasklet("t"), S_simple("t", "X", "W")}

\* SDFGs without nested SDFGs
FlatGraphs ==
  {Graph(CatHost(xs, "Array"), <<S_empty("init"), S_simple("s", "X", "Y"), b>>,
         Ctl(loop), <<>>) :
     xs \in {"Default", "FPGA_Global", "CPU_Heap"}, b \in SecondStates,
     loop \in BOOLEAN}
  \cup {Graph(CatHost("Default", "Stream"),
              <<S_empty("init"), S_simple("s", "X", "Y"), S_empty("t")>>,
              Ctl(FALSE), <<>>)}
  \cup {Graph(CatHost("Default", "Array"), <<S_empty("init"), a, b>>, Ctl(FALSE), <<>>) :
     a \in {S_empty("s"), S_tasklet("s"), S_simple("s", "X", "X")},
     b \in SecondStates}
  \cup {Graph(CatHost("Default", "Array"),
              <<S_empty("init"), S_map("s", sc, d), S_empty("t")>>, Ctl(FALSE), <<>>) :
     sc \in Schedules, d \in {1, MaxDims, MaxDims + 1}}
  \cup {Graph(CatHost("Default", "Array"),
              <<S_empty("init"), S_map2("s", so, si, d), S_empty("t")>>,
              Ctl(FALSE), <<>>) :
     so \in {"Default", "Sequential", "FPGA_Device", "GPU_ThreadBlock"},
     si \in {"Default", "CPU_Multicore"}, d \in {MaxDims, MaxDims + 1}}

\* SDFGs whose state s holds a NestedSDFG node (graph 2, and graph 3 inside it)
NestedGraphs ==
  {Graph(CatHost("Default", "Array"), <<S_empty("init"), a, b>>, Ctl(FALSE),
         <<[arrays |-> CatInner("Default"), states |-> <<N_leaf("in", va, vb, wcr)>>]>>) :
     a \in {S_nest("s"), S_nestmid("s"), S_mapnest("s", "Default")},
     b \in {S_empty("t"), S_simple("t", "X", "W")},
     va \in {2, 4}, vb \in {4}, wcr \in BOOLEAN}
  \cup {Graph(CatHost("Default", "Array"), <<S_empty("init"), S_nest("s"), S_empty("t")>>,
         Ctl(FALSE),
         <<[arrays |-> CatInner("Default"),
            states |-> <<N_mid("in", 2), N_scoped("in1", sc, 2)>>],
           [arrays |-> CatInner(st3),
            states |-> <<N_scoped("in2", sc, va)>>]>>) :
     sc \in {"Default", "Sequential"}, st3 \in {"Default", "CPU_Heap"}, va \in {2, 4}}

\* Catalog of an SDFG that already lives on the device; T is the array under test.
CatDevice(tr, st, sym) ==
  << Desc("gA", "Array", FALSE, "FPGA_Global", "", 4),
     Desc("T", "Array", tr, st, sym, 4),
     Desc("gB", "Array", FALSE, "FPGA_Global", "N", 0),
     Desc("gC", "Array", FALSE, "FPGA_Global", "", 4),
     Desc("gD", "Array", FALSE, "FPGA_Global", "", 4),
     Desc("T2", "Array", TRUE, "FPGA_Global", "", 4) >>

\* gA -> nested SDFG 2 -> T -> tasklet -> gB
S_dev(l) ==
  ST(l, <<AN(1, "gA", 0), NS(2, 2, 0), AN(3, "T", 0), TK(4, 0), AN(5, "gB", 0)>>,
     <<ED(1, "", 2, "a", "gA", 1, FALSE), ED(2, "b", 3, "", "T", 1, FALSE),
       ED(3, "", 4, "x", "T", 1, FALSE), ED(4, "y", 5, "", "gB", 1, FALSE)>>)

\* gA -> tasklet -> T -> nested SDFG 2 -> gB : the nested SDFG reads T
S_devr(l) ==
  ST(l, <<AN(1, "gA", 0), TK(2, 0), AN(3, "T", 0), NS(4, 2, 0), AN(5, "gB", 0)>>,
     <<ED(1, "", 2, "x", "gA", 1, FALSE), ED(2, "y", 3, "", "T", 1, FALSE),
       ED(3, "", 4, "a", "T", 1, FALSE), ED(4, "b", 5, "", "gB", 1, FALSE)>>)

\* in -> tasklet -> T2 -> tasklet -> gC
S_dev2(l, in) ==
  ST(l, <<AN(1, in, 0), TK(2, 0), AN(3, "T2", 0), TK(4, 0), AN(5, "gC", 0)>>,
     <<ED(1, "", 2, "x", in, 1, FALSE), ED(2, "y", 3, "", "T2", 1, FALSE),
       ED(3, "", 4, "x", "T2", 1, FALSE), ED(4, "y", 5, "", "gC", 1, FALSE)>>)

\* SDFGs already lowered: the inputs of the placement passes
DeviceGraphs ==
  {Graph(CatDevice(tr, st, sym),
         <<S_empty("init"), IF reads THEN S_devr("k") ELSE S_dev("k"),
           S_dev2("k2", IF shared THEN "T" ELSE "gD")>>,
         Ctl(FALSE),
         <<[arrays |-> CatInner("FPGA_Global"), states |-> <<N_mid("in", 2)>>],
           [arrays |-> CatInner("FPGA_Global"), states |-> <<N_leaf("in2", 2, 2, FALSE)>>]>>) :
     tr \in BOOLEAN, st \in {"FPGA_Global", "CPU_Heap"}, sym \in {"", "N", "M"},
     shared \in BOOLEAN, reads \in BOOLEAN}

InitGraphs == FlatGraphs \cup NestedGraphs \cup DeviceGraphs

NoOp == [op |-> "init", st |-> 0, ok |-> FALSE, err |-> "", ret |-> <<>>, count |-> 0]

Init ==
  \E g \in InitGraphs :
    /\ arrays = g.arrays
    /\ states = g.states
    /\ cedges = g.cedges
    /\ added = g.added
    /\ old = g
    /\ last = NoOp
    /\ napply = 0
    /\ passes = {}

(* ------------------- FPGATransformState.can_be_applied ----------------- *)
\* node.desc(sdfg).storage
Storage(G, k, name) == DescOf(G, k, name).storage

\* lines 71-80: walk from the map entry up through its enclosing scopes
RECURSIVE ScopeHasDeviceSchedule(_, _)
ScopeHasDeviceSchedule(S, id) ==
  IF id = NoNode THEN FALSE
  ELSE LET current_node == NodeOf(S, id) IN
       IF current_node.schedule \in {"GPU_Device", "FPGA_Device", "GPU_ThreadBlock"}
       THEN TRUE
       ELSE ScopeHasDeviceSchedule(S, current_node.scope)

\* A variant that already rejects a range of MaxDims dimensions.
DimsTooManyOffByOne(dims) == dims >= MaxDims

\* line 59
DimsTooMany(dims) == dims > MaxDims

\* lines 46-82: the loop over state.nodes(), from position i on
RECURSIVE can_be_applied_from(_, _, _)
can_be_applied_from(G, S, i) ==
  IF i > Len(S.nodes) THEN TRUE
  ELSE LET node == S.nodes[i] IN
       IF node.type = "AccessNode" /\ Storage(G, Top, node.data) # "Default" THEN FALSE
       ELSE IF node.type # "MapEntry" THEN can_be_applied_from(G, S, i + 1)
       ELSE IF DimsTooMany(node.dims) THEN FALSE
       ELSE IF node.schedule \in {"MPI", "GPU_Device", "FPGA_Device", "GPU_ThreadBlock"}
            THEN FALSE
       ELSE IF ScopeHasDeviceSchedule(S, node.id) THEN FALSE
       ELSE can_be_applied_from(G, S, i + 1)

can_be_applied(G, s) == can_be_applied_from(G, G.states[Top][s], 1)

(* --------------------------- graph surface ----------------------------- *)
\* nxutil.find_source_nodes / find_sink_nodes: node ids, in node order
find_source_nodes(S) ==
  LET src(n) == ~ \E e \in Range(S.edges) : e.dst = n.id
  IN  Tuple([i \in DOMAIN SelectSeq(S.nodes, src) |-> SelectSeq(S.nodes, src)[i].id])

find_sink_nodes(S) ==
  LET snk(n) == ~ \E e \in Range(S.edges) : e.src = n.id
  IN  Tuple([i \in DOMAIN SelectSeq(S.nodes, snk) |-> SelectSeq(S.nodes, snk)[i].id])

\* nxutil.change_edge_src(graph, a, b): every edge leaving a is removed and
\* added again leaving b
change_edge_src(edges, a, b) ==
  LET keep(e) == e.src # a
      move(e) == e.src = a
      moved == SelectSeq(edges, move)
  IN  SelectSeq(edges, keep) \o [i \in DOMAIN moved |-> [moved[i] EXCEPT !.src = b]]

\* nxutil.change_edge_dest(graph, a, b): every edge entering a is removed and
\* added again entering b
change_edge_dest(edges, a, b) ==
  LET keep(e) == e.dst # a
      move(e) == e.dst = a
      moved == SelectSeq(edges, move)
  IN  SelectSeq(edges, keep) \o [i \in DOMAIN moved |-> [moved[i] EXCEPT !.dst = b]]

\* state.add_read / state.add_write: a new unscoped access node
add_access(S, data) ==
  [S EXCEPT !.nodes = Append(@, AN(S.next, data, NoNode)), !.next = @ + 1]

\* state.remove_node
remove_node(S, id) ==
  LET keep(n) == n.id # id
      free(e) == e.src # id /\ e.dst # id
  IN  [S EXCEPT !.nodes = SelectSeq(S.nodes, keep), !.edges = SelectSeq(S.edges, free)]

\* sdfg.add_array(name, ...): the catalog is keyed by name
add_array(G, name, desc) ==
  LET d == [desc EXCEPT !.name = name]
  IN  [G EXCEPT
         !.arrays[Top] = IF HasArray(G, Top, name)
                         THEN [@ EXCEPT ![IdxOf(G, Top, name)] = d]
                         ELSE Append(@, d),
         !.added = Append(@, name)]

\* 'fpga_' + node.data
FpgaName(data) == "fpga_" \o data

\* lines 146-156 and 191-201: the proxy mirrors the host array
ProxyDesc(array) ==
  [array EXCEPT !.transient = TRUE, !.storage = "FPGA_Global", !.bank = NoBank]

\* A node is referred to by the graph and state that hold it and its id.
Ref(k, si, id) == [k |-> k, si |-> si, id |-> id]
Deref(G, r) == NodeOf(G.states[r.k][r.si], r.id)

\* The state holding the NestedSDFG node that owns graph k (sdfg.parent).
Owners(G, k) ==
  {Ref(kk, i, n.id) : <<kk, i, n>> \in
     {<<kk, i, n>> \in UNION {UNION {{<<kk, i, n>> : n \in Range(G.states[kk][i].nodes)} :
                                i \in DOMAIN G.states[kk]} : kk \in DOMAIN G.states} :
        n.type = "NestedSDFG" /\ n.sub = k}}
Owner(G, k) == CHOOSE r \in Owners(G, k) : TRUE

\* Iterating an SDFG yields the SDFG and the SDFGs nested in it.
SdfgIter(G) == Tuple([k \in DOMAIN G.states |-> k])

\* every (node, state) of the states of graph k
InnerNodes(G, k, from) ==
  IF from > Len(G.states[k]) THEN <<>>
  ELSE LET S == G.states[k][from] IN
       Tuple([i \in DOMAIN S.nodes |->
                [ref |-> Ref(k, from, S.nodes[i].id), inner |-> TRUE]])

RECURSIVE AllInnerNodes(_, _, _)
AllInnerNodes(G, k, from) ==
  IF from > Len(G.states[k]) THEN <<>>
  ELSE InnerNodes(G, k, from) \o AllInnerNodes(G, k, from + 1)

(* ----------------------- FPGATransformState.apply ---------------------- *)
\* lines 119-129: the nodes of the parent state that a WCR write to the
\* nested access node r reaches
WcrTargets(G, r) ==
  LET S == G.states[r.k][r.si]
      inc(e) == (e.src = r.id \/ e.dst = r.id) /\ e.wcr
      wcr_edges == SelectSeq(S.edges, inc)
      own == Owner(G, r.k)
      parent_state == G.states[own.k][own.si]
      hits(e) ==
        LET m(pe) == \/ pe.src_conn = NodeOf(S, e.dst).data
                     \/ /\ NodeOf(parent_state, pe.dst).type = "AccessNode"
                        /\ NodeOf(S, e.dst).data = NodeOf(parent_state, pe.dst).data
            ms == SelectSeq(parent_state.edges, m)
        IN  Tuple([i \in DOMAIN ms |-> Ref(own.k, own.si, ms[i].dst)])
      RECURSIVE cat(_)
      cat(i) == IF i > Len(wcr_edges) THEN <<>> ELSE hits(wcr_edges[i]) \o cat(i + 1)
  IN  cat(1)

\* lines 106-129: the stack walk.  stack.pop() takes the last entry, and the
\* nodes a NestedSDFG entry pushes are popped before the entries under them,
\* so the walk visits stack[i], then what stack[i] pushed, then stack[i-1].
\* The result is what the walk appends to input_nodes (and adds to
\* wcr_input_nodes), in order.
RECURSIVE WcrWalk(_, _, _), WcrVisit(_, _)
WcrWalk(G, stack, i) ==
  IF i = 0 THEN <<>> ELSE WcrVisit(G, stack[i]) \o WcrWalk(G, stack, i - 1)

\* lines 110-129: one popped entry
WcrVisit(G, top) ==
  IF Deref(G, top.ref).type = "NestedSDFG"
  THEN WcrWalk(G, AllInnerNodes(G, Deref(G, top.ref).sub, 1),
               Len(AllInnerNodes(G, Deref(G, top.ref).sub, 1)))
  ELSE IF Deref(G, top.ref).type = "AccessNode" /\ top.inner
  THEN WcrTargets(G, top.ref)
  ELSE <<>>

\* lines 104-105: for sg in sdfg: stack += [(n, sg) for n in state.nodes()]
RECURSIVE InitialStack(_, _, _)
InitialStack(G, s, j) ==
  IF j > Len(SdfgIter(G)) THEN <<>>
  ELSE LET S == G.states[Top][s] IN
       [i \in DOMAIN S.nodes |-> [ref |-> Ref(Top, s, S.nodes[i].id), inner |-> FALSE]]
         \o InitialStack(G, s, j + 1)

wcr_input_seq(G, s) == WcrWalk(G, InitialStack(G, s, 1), Len(InitialStack(G, s, 1)))

\* lines 94 and 128: the source nodes followed by the WCR targets
input_nodes(G, s) ==
  LET src == find_source_nodes(G.states[Top][s])
  IN  [i \in DOMAIN src |-> Ref(Top, s, src[i])] \o wcr_input_seq(G, s)

wcr_input_nodes(G, s) == Range(wcr_input_seq(G, s))

output_nodes(G, s) == find_sink_nodes(G.states[Top][s])

\* lines 165 and 211: a staging state gets the copy edge between the two
\* access nodes added last; host_first tells whether it leaves the first
\* of them (pre-state) or the second (post-state)
AddCopyEdge(P, data, host_first) ==
  [P EXCEPT !.edges =
     Append(@, ED(IF host_first THEN P.next - 2 ELSE P.next - 1, "",
                  IF host_first THEN P.next - 1 ELSE P.next - 2, "",
                  data, CopyVeclen, FALSE))]

\* lines 159-160 and 205-206: the access node of the array is added first,
\* the access node of its proxy second
AddCopy(P, data, host_first) ==
  AddCopyEdge(add_access(add_access(P, data), FpgaName(data)),
              IF host_first THEN data ELSE FpgaName(data), host_first)

\* lines 168-170: the edges leaving node id now leave a new access node of
\* the proxy, and the node is removed
ReplaceSource(S, id, data) ==
  remove_node([add_access(S, data) EXCEPT !.edges = change_edge_src(S.edges, id, S.next)], id)

\* lines 213-215: the edges entering node id now enter a new access node of
\* the proxy, and the node is removed
ReplaceSink(S, id, data) ==
  remove_node([add_access(S, data) EXCEPT !.edges = change_edge_dest(S.edges, id, S.next)], id)

\* lines 145-157: the proxy of an input node is created unless the node is a
\* WCR input node
InputNeedsProxy(is_wcr) == ~is_wcr

\* lines 143-157.  E = [G, pre, fpga_data, err]
PreProxy(E, node, is_wcr) ==
  IF node.data \notin E.fpga_data /\ InputNeedsProxy(is_wcr)
  THEN [E EXCEPT !.G = add_array(E.G, FpgaName(node.data),
                                 ProxyDesc(DescOf(E.G, Top, node.data))),
                 !.fpga_data = @ \cup {node.data}]
  ELSE E

\* lines 159-165
PreCopy(E, node) == [E EXCEPT !.pre = AddCopy(E.pre, node.data, TRUE)]

\* lines 167-170
PreRewire(E, s, node, is_wcr) ==
  IF is_wcr THEN E
  ELSE [E EXCEPT !.G.states[Top][s] =
          ReplaceSource(E.G.states[Top][s], node.id, FpgaName(node.data))]

\* lines 135-170: one iteration of the loop over input_nodes; G00 is the
\* graph when apply began, r the node, wcr the set wcr_input_nodes
PreStep(E, G00, s, r, wcr) ==
  LET node == Deref(G00, r) IN
  IF node.type # "AccessNode" THEN E
  ELSE IF ~HasArray(E.G, Top, node.data) THEN [E EXCEPT !.err = "KeyError"]
  ELSE IF DescOf(E.G, Top, node.data).kind # "Array" THEN E
  ELSE PreRewire(PreCopy(PreProxy(E, node, r \in wcr), node), s, node, r \in wcr)

RECURSIVE PreLoop(_, _, _, _, _, _)
PreLoop(E, G00, s, ins, wcr, i) ==
  IF i > Len(ins) \/ E.err # "" THEN E
  ELSE PreLoop(PreStep(E, G00, s, ins[i], wcr), G00, s, ins, wcr, i + 1)

\* A variant that leaves the edges entering the state where they are.
LinkPreNoRedirect(G, s, pre) ==
  [G EXCEPT !.states[Top] = Append(G.states[Top], pre),
            !.cedges = Append(G.cedges, CE(Len(G.states[Top]) + 1, s, "true"))]

\* lines 172-174: the pre-state enters the SDFG in front of the state
LinkPre(G, s, pre) ==
  [G EXCEPT !.states[Top] = Append(@, pre),
            !.cedges = Append(change_edge_dest(G.cedges, s, Len(G.states[Top]) + 1),
                              CE(Len(G.states[Top]) + 1, s, "true"))]

\* lines 188-202
PostProxy(E, node) ==
  IF node.data \notin E.fpga_data
  THEN [E EXCEPT !.G = add_array(E.G, FpgaName(node.data),
                                 ProxyDesc(DescOf(E.G, Top, node.data))),
                 !.fpga_data = @ \cup {node.data}]
  ELSE E

\* lines 205-211
PostCopy(E, node) == [E EXCEPT !.pre = AddCopy(E.pre, node.data, FALSE)]

\* lines 213-215
PostRewire(E, s, node) ==
  [E EXCEPT !.G.states[Top][s] =
     ReplaceSink(E.G.states[Top][s], node.id, FpgaName(node.data))]

\* lines 180-215: one iteration of the loop over output_nodes
PostStep(E, G00, s, id) ==
  LET node == NodeOf(G00.states[Top][s], id) IN
  IF node.type # "AccessNode" THEN E
  ELSE IF ~HasArray(E.G, Top, node.data) THEN [E EXCEPT !.err = "KeyError"]
  ELSE IF DescOf(E.G, Top, node.data).kind # "Array" THEN E
  ELSE PostRewire(PostCopy(PostProxy(E, node), node), s, node)

RECURSIVE PostLoop(_, _, _, _, _)
PostLoop(E, G00, s, outs, i) ==
  IF i > Len(outs) \/ E.err # "" THEN E
  ELSE PostLoop(PostStep(E, G00, s, outs[i]), G00, s, outs, i + 1)

\* lines 217-219: the post-state enters the SDFG behind the state
LinkPost(G, s, post) ==
  [G EXCEPT !.states[Top] = Append(@, post),
            !.cedges = Append(change_edge_src(G.cedges, s, Len(G.states[Top]) + 1),
                              CE(s, Len(G.states[Top]) + 1, "true"))]

\* lines 226-231 and 234-239: the vector length on connector conn inside
\* the nested SDFG sub; cur is kept when no access node is bound to conn
RECURSIVE InnerVeclenNodes(_, _, _, _), InnerVeclen(_, _, _, _, _)
InnerVeclenNodes(S, conn, cur, i) ==
  IF i > Len(S.nodes) THEN cur
  ELSE LET n == S.nodes[i]
           inc(e) == e.src = n.id \/ e.dst = n.id
           all_edges == SelectSeq(S.edges, inc)
       IN  IF n.type = "AccessNode" /\ n.data = conn
           THEN InnerVeclenNodes(S, conn, all_edges[1].veclen, i + 1)
           ELSE InnerVeclenNodes(S, conn, cur, i + 1)

InnerVeclen(G, sub, conn, cur, j) ==
  IF j > Len(G.states[sub]) THEN cur
  ELSE InnerVeclen(G, sub, conn, InnerVeclenNodes(G.states[sub][j], conn, cur, 1), j + 1)

\* line 243: mem.veclen = veclen_  (veclen_ is a local of apply)
AssignVeclen(e, veclen_) == [e EXCEPT !.veclen = veclen_]

\* lines 241-243, with veclen_ as the scan of lines 224-239 left it
VeclenAssign(V, s, i, e, veclen_, fpga_data) ==
  IF e.data # "" /\ e.data \in fpga_data
  THEN IF veclen_ = Unbound
       THEN [V EXCEPT !.G.states[Top][s].edges[i].data = FpgaName(e.data),
                      !.err = "UnboundLocalError"]
       ELSE [V EXCEPT !.G.states[Top][s].edges[i] =
                        AssignVeclen([e EXCEPT !.data = FpgaName(e.data)], veclen_),
                      !.veclen_ = veclen_]
  ELSE [V EXCEPT !.veclen_ = veclen_]

\* lines 224-231: the edge goes to a nested SDFG
VeclenFromDst(G, S, e, cur) ==
  IF NodeOf(S, e.dst).type = "NestedSDFG"
  THEN InnerVeclen(G, NodeOf(S, e.dst).sub, e.dst_conn, cur, 1) ELSE cur

\* lines 232-239: the edge comes from a nested SDFG
VeclenFromSrc(G, S, e, cur) ==
  IF NodeOf(S, e.src).type = "NestedSDFG"
  THEN InnerVeclen(G, NodeOf(S, e.src).sub, e.src_conn, cur, 1) ELSE cur

\* lines 222-243: one iteration of the loop over state.edges().
\* V = [G, veclen_, err]; fpga_data is the set of proxied names.
VeclenStep(V, s, i, fpga_data) ==
  VeclenAssign(V, s, i, V.G.states[Top][s].edges[i],
               VeclenFromSrc(V.G, V.G.states[Top][s], V.G.states[Top][s].edges[i],
                 VeclenFromDst(V.G, V.G.states[Top][s], V.G.states[Top][s].edges[i],
                               V.veclen_)),
               fpga_data)

RECURSIVE VeclenLoop(_, _, _, _)
VeclenLoop(V, s, i, fpga_data) ==
  IF i > Len(V.G.states[Top][s].edges) \/ V.err # "" THEN V
  ELSE VeclenLoop(VeclenStep(V, s, i, fpga_data), s, i + 1, fpga_data)

(* ------------------------------ fpga_update ---------------------------- *)
SetStorage(G, k, name, st) ==
  [G EXCEPT !.arrays[k][IdxOf(G, k, name)].storage = st]

\* A variant that does not look at the depth.
PlaceForAnyDepth(depth, scoped) ==
  IF scoped THEN "FPGA_Local" ELSE "FPGA_Global"

\* lines 18-24
PlaceFor(depth, scoped) ==
  IF depth >= DeepDepth THEN "FPGA_Local"
  ELSE IF scoped THEN "FPGA_Local" ELSE "FPGA_Global"

\* line 30: the depth handed to the states of a nested SDFG
NestedDepth(depth) == depth + 1

\* lines 15-24: the storage of the array of an access node
UpdateStorage(G, k, node, depth) ==
  IF node.type = "AccessNode" /\ Storage(G, k, node.data) = "Default"
  THEN SetStorage(G, k, node.data, PlaceFor(depth, node.scope # NoNode))
  ELSE G

\* lines 25-27: the schedule of a node that has one
UpdateSchedule(G, k, si, i, node) ==
  IF node.schedule = "Default"
  THEN [G EXCEPT !.states[k][si].nodes[i].schedule = "FPGA_Device"]
  ELSE G

RECURSIVE fpga_update_from(_, _, _, _, _), fpga_update_states(_, _, _, _)
\* lines 28-30: the states of a nested SDFG
UpdateNested(G, node, depth) ==
  IF node.type = "NestedSDFG"
  THEN fpga_update_states(G, node.sub, NestedDepth(depth), 1)
  ELSE G

\* lines 14-30: the loop over state.nodes(), from position i on
fpga_update_from(G, k, si, depth, i) ==
  IF i > Len(G.states[k][si].nodes) THEN G
  ELSE fpga_update_from(
         UpdateNested(
           UpdateSchedule(UpdateStorage(G, k, G.states[k][si].nodes[i], depth),
                          k, si, i, G.states[k][si].nodes[i]),
           G.states[k][si].nodes[i], depth),
         k, si, depth, i + 1)

\* lines 29-30: for s in node.sdfg.nodes()
fpga_update_states(G, k, depth, j) ==
  IF j > Len(G.states[k]) THEN G
  ELSE fpga_update_states(fpga_update_from(G, k, j, depth, 1), k, depth, j + 1)

fpga_update(G, k, si, depth) == fpga_update_from(G, k, si, depth, 1)

(* ------------------------------- apply --------------------------------- *)
\* lines 172-174 once the loop over input_nodes is through.
\* The result is A = [G, fpga_data, err, pre]; pre is the new state or 0.
PreResult(E, s) ==
  IF E.err # "" THEN [G |-> E.G, fpga_data |-> E.fpga_data, err |-> E.err, pre |-> 0]
  ELSE [G |-> LinkPre(E.G, s, E.pre), fpga_data |-> E.fpga_data, err |-> "",
        pre |-> Len(E.G.states[Top]) + 1]

\* lines 131-174
ApplyPre(G, s, ins, wcr) ==
  IF ins = <<>> THEN [G |-> G, fpga_data |-> {}, err |-> "", pre |-> 0]
  ELSE PreResult(
         PreLoop([G |-> G, pre |-> ST("pre_" \o G.states[Top][s].label, <<>>, <<>>),
                  fpga_data |-> {}, err |-> ""], G, s, ins, wcr, 1), s)

\* lines 217-219 once the loop over output_nodes is through.
\* The result is B = [G, fpga_data, err, pre, post].
PostResult(E, A, s) ==
  IF E.err # ""
  THEN [G |-> E.G, fpga_data |-> E.fpga_data, err |-> E.err, pre |-> A.pre, post |-> 0]
  ELSE [G |-> LinkPost(E.G, s, E.pre), fpga_data |-> E.fpga_data, err |-> "",
        pre |-> A.pre, post |-> Len(E.G.states[Top]) + 1]

\* lines 176-219
ApplyPost(A, G00, s, outs) ==
  IF A.err # "" \/ outs = <<>>
  THEN [G |-> A.G, fpga_data |-> A.fpga_data, err |-> A.err, pre |-> A.pre, post |-> 0]
  ELSE PostResult(
         PostLoop([G |-> A.G, pre |-> ST("post_" \o G00.states[Top][s].label, <<>>, <<>>),
                   fpga_data |-> A.fpga_data, err |-> ""], G00, s, outs, 1), A, s)

\* lines 221-243
ApplyVeclen(B, s) ==
  IF B.err # "" THEN [G |-> B.G, veclen_ |-> Unbound, err |-> B.err]
  ELSE VeclenLoop([G |-> B.G, veclen_ |-> Unbound, err |-> ""], s, 1, B.fpga_data)

\* line 245, reached unless a step before it raised
ApplyUpdate(V, B, s) ==
  [G |-> IF V.err # "" THEN V.G ELSE fpga_update(V.G, Top, s, 0),
   err |-> V.err, pre |-> B.pre, post |-> B.post, fpga_data |-> B.fpga_data]

ApplyTail(B, s) == ApplyUpdate(ApplyVeclen(B, s), B, s)

\* lines 90-245: the whole of apply; the result carries the graph as apply
\* leaves it (also when it raises) and what it raised
apply(G, s) ==
  ApplyTail(ApplyPost(ApplyPre(G, s, input_nodes(G, s), wcr_input_nodes(G, s)),
                      G, s, output_nodes(G, s)), s)

(* ------------------------- fpga_global_to_local ------------------------ *)
\* The symbols the SDFG binds to constants.
SymbolValues == [N |-> 8]

\* symbolic.resolve_symbol_to_constant(desc.total_size, sdfg)
resolve_symbol_to_constant(desc) ==
  IF desc.sym = "" THEN desc.val
  ELSE IF desc.sym \in DOMAIN SymbolValues THEN SymbolValues[desc.sym]
  ELSE Unresolved

\* sdfg.shared_transients(): the transients accessed in more than one state
shared_transients(G) ==
  LET uses(name) == {i \in DOMAIN G.states[Top] :
                       \E n \in Range(G.states[Top][i].nodes) :
                         n.type = "AccessNode" /\ n.data = name}
  IN  {d.name : d \in {d \in Range(G.arrays[Top]) :
                         d.transient /\ Cardinality(uses(d.name)) > 1}}

\* memlet_path(edge): the node a memlet comes from / goes to through the
\* map entries / exits around it
RECURSIVE PathSource(_, _)
PathSource(P, e) ==
  LET up == {f \in Range(P.edges) :
               /\ f.dst = e.src /\ NodeOf(P, e.src).type = "MapEntry"
               /\ \E g \in Range(P.edges) :
                    e.src_conn = "OUT_" \o g.data /\ f.dst_conn = "IN_" \o g.data}
  IN  IF up = {} THEN e.src ELSE PathSource(P, CHOOSE f \in up : TRUE)

RECURSIVE PathSink(_, _)
PathSink(P, e) ==
  LET down == {f \in Range(P.edges) :
                 /\ f.src = e.dst /\ NodeOf(P, e.dst).type = "MapExit"
                 /\ \E g \in Range(P.edges) :
                      e.dst_conn = "IN_" \o g.data /\ f.src_conn = "OUT_" \o g.data}
  IN  IF down = {} THEN e.dst ELSE PathSink(P, CHOOSE f \in down : TRUE)

\* trace_nested_access, one level up: the array of the access node that
\* feeds (read) or is fed by (write) the connector conn of the NestedSDFG
\* node id of state P
TraceOuter(P, id, conn, read) ==
  LET ends == IF read
              THEN {PathSource(P, e) : e \in
                      {e \in Range(P.edges) : e.dst = id /\ e.dst_conn = conn}}
              ELSE {PathSink(P, e) : e \in
                      {e \in Range(P.edges) : e.src = id /\ e.src_conn = conn}}
      found == {NodeOf(P, m).data : m \in {m \in ends : NodeOf(P, m).type = "AccessNode"}}
  IN  IF conn = NoAccess \/ found = {} THEN NoAccess ELSE CHOOSE d \in found : TRUE

\* trace_nested_access, the loop towards the outermost SDFG: r and w are the
\* arrays read and written in graph k; the trace lists the pairs
\* (read node, write node) from the outermost scope to the innermost
RECURSIVE TraceUp(_, _, _, _)
TraceUp(G, k, r, w) ==
  IF k = Top THEN <<[read |-> r, write |-> w]>>
  ELSE LET own == Owner(G, k)
           P == G.states[own.k][own.si]
           r1 == TraceOuter(P, own.id, r, TRUE)
           w1 == TraceOuter(P, own.id, w, FALSE)
       IN  IF r1 # NoAccess \/ w1 # NoAccess
           THEN TraceUp(G, own.k, r1, w1) \o <<[read |-> r, write |-> w]>>
           ELSE <<[read |-> r, write |-> w]>>

\* trace_nested_access(node, state, sdfg): the node is the read node of its
\* own scope when a memlet leaves it and the write node when one enters it
trace_nested_access(G, k, si, id) ==
  LET S == G.states[k][si] IN
  TraceUp(G, k,
          IF \E e \in Range(S.edges) : e.src = id THEN NodeOf(S, id).data ELSE NoAccess,
          IF \E e \in Range(S.edges) : e.dst = id THEN NodeOf(S, id).data ELSE NoAccess)

\* lines 22-23: the containers the pass looks at
IsCandidate(G, desc) ==
  /\ desc.transient
  /\ desc.name \notin shared_transients(G)
  /\ desc.storage = "FPGA_Global"

\* lines 34-42: every access node whose trace has a write node (the second
\* of a pair, line 38) of the container gets FPGA_Local in its own graph's
\* catalog
UpdateAccessNodes(G, name) ==
  LET hit(k, d) == \E i \in DOMAIN G.states[k] : \E n \in Range(G.states[k][i].nodes) :
                     /\ n.type = "AccessNode" /\ n.data = d.name
                     /\ \E t \in Range(trace_nested_access(G, k, i, n.id)) :
                          t.write # NoAccess /\ t.write = name
  IN  [G EXCEPT !.arrays = Tuple([k \in DOMAIN G.arrays |->
         Tuple([j \in DOMAIN G.arrays[k] |->
           IF hit(k, G.arrays[k][j]) THEN [G.arrays[k][j] EXCEPT !.storage = "FPGA_Local"]
           ELSE G.arrays[k][j]])])]

\* lines 30-42: the container i is demoted
Demote(G, i) ==
  UpdateAccessNodes([G EXCEPT !.arrays[Top][i].storage = "FPGA_Local"],
                    G.arrays[Top][i].name)

\* lines 21-42: the loop over sdfg.arrays.items(); R = [G, count]
RECURSIVE global_to_local_from(_, _)
global_to_local_from(R, i) ==
  IF i > Len(R.G.arrays[Top]) THEN R
  ELSE IF /\ IsCandidate(R.G, R.G.arrays[Top][i])
          /\ resolve_symbol_to_constant(R.G.arrays[Top][i]) # Unresolved
       THEN global_to_local_from([G |-> Demote(R.G, i), count |-> R.count + 1], i + 1)
       ELSE global_to_local_from(R, i + 1)

fpga_global_to_local(G) == global_to_local_from([G |-> G, count |-> 0], 1)

(* ---------------- fpga_rr_interleave_containers_to_banks --------------- *)
\* A variant that counts the catalog entries from 1.
BankOfOneBased(i, num_banks) == (i + 1) % num_banks

\* line 63: the bank of the i-th catalog entry (i counts from 0)
BankOf(i, num_banks) == i % num_banks

\* lines 63-64
Allocate(R, i, b) ==
  [G |-> [R.G EXCEPT !.arrays[Top][i].bank = b],
   num_allocated |-> [R.num_allocated EXCEPT ![b + 1] = @ + 1]]

\* lines 61-64: the loop over enumerate(sdfg.arrays.items());
\* R = [G, num_allocated]
RECURSIVE rr_interleave_from(_, _, _)
rr_interleave_from(R, num_banks, i) ==
  IF i > Len(R.G.arrays[Top]) THEN R
  ELSE IF R.G.arrays[Top][i].storage = "FPGA_Global"
       THEN rr_interleave_from(Allocate(R, i, BankOf(i - 1, num_banks)), num_banks, i + 1)
       ELSE rr_interleave_from(R, num_banks, i + 1)

fpga_rr_interleave_containers_to_banks(G, num_banks) ==
  rr_interleave_from([G |-> G, num_allocated |-> Tuple([b \in 1..num_banks |-> 0])],
                     num_banks, 1)

(* ------------------------------ actions -------------------------------- *)
\* The driver evaluates the applicability predicate on a state of the SDFG.
Check(s) ==
  /\ s \in DOMAIN states[Top]
  /\ passes = {} /\ last.op # "update" /\ last.err = ""
  /\ last' = [op |-> "check", st |-> s, ok |-> can_be_applied(G0, s), err |-> "",
              ret |-> <<>>, count |-> 0]
  /\ old' = G0
  /\ UNCHANGED <<arrays, states, cedges, added, napply, passes>>

\* The graph and the outcome that a call of apply leaves behind.
Applied(R, s) ==
  /\ arrays' = R.G.arrays
  /\ states' = R.G.states
  /\ cedges' = R.G.cedges
  /\ added' = R.G.added
  /\ last' = [op |-> "apply", st |-> s, ok |-> R.err = "", err |-> R.err,
              ret |-> <<R.pre, R.post>>, count |-> 0]

\* The driver applies the transformation to the state it found applicable.
\* An exception that apply raises ends the run: nothing is called after it.
Apply(s) ==
  /\ passes = {}
  /\ last.op = "check" /\ last.st = s /\ last.ok
  /\ napply < MaxApplies
  /\ Applied(apply(G0, s), s)
  /\ old' = G0
  /\ napply' = napply + 1
  /\ UNCHANGED passes

Updated(U) ==
  /\ arrays' = U.arrays
  /\ states' = U.states

Demoted(R) ==
  /\ arrays' = R.G.arrays
  /\ last' = [op |-> "g2l", st |-> 0, ok |-> TRUE, err |-> "", ret |-> <<>>,
              count |-> R.count]

Interleaved(R, num_banks) ==
  /\ arrays' = R.G.arrays
  /\ last' = [op |-> "rr", st |-> num_banks, ok |-> TRUE, err |-> "",
              ret |-> R.num_allocated, count |-> 0]

\* fpga_update called on a state of an SDFG that was not rewritten
FpgaUpdate(s) ==
  /\ last.op = "init"
  /\ s \in DOMAIN states[Top]
  /\ Updated(fpga_update(G0, Top, s, 0))
  /\ last' = [op |-> "update", st |-> s, ok |-> TRUE, err |-> "", ret |-> <<>>, count |-> 0]
  /\ old' = G0
  /\ UNCHANGED <<cedges, added, napply, passes>>

\* The demotion pass, run once over the SDFG.
GlobalToLocal ==
  /\ last.op \notin {"update", "g2l"} /\ "g2l" \notin passes /\ last.err = ""
  /\ Demoted(fpga_global_to_local(G0))
  /\ old' = G0
  /\ passes' = passes \cup {"g2l"}
  /\ UNCHANGED <<states, cedges, added, napply>>

\* The bank interleaving pass, run once over the SDFG.
Interleave(num_banks) ==
  /\ last.op \notin {"update", "rr"} /\ "rr" \notin passes /\ last.err = ""
  /\ Interleaved(fpga_rr_interleave_containers_to_banks(G0, num_banks), num_banks)
  /\ old' = G0
  /\ passes' = passes \cup {"rr"}
  /\ UNCHANGED <<states, cedges, added, napply>>

Next ==
  \/ \E s \in DOMAIN states[Top] : Check(s)
  \/ \E s \in DOMAIN states[Top] : Apply(s)
  \/ \E s \in DOMAIN states[Top] : FpgaUpdate(s)
  \/ GlobalToLocal
  \/ \E num_banks \in 1..MaxBanks : Interleave(num_banks)

Spec == Init /\ [][Next]_vars

(* ------------------------------ properties ----------------------------- *)
\* The state the last call worked on, before the call and now.
OldState == old.states[Top][last.st]
NewState == states[Top][last.st]

AccessNodes(S) == {n \in Range(S.nodes) : n.type = "AccessNode"}
Count(seq, x) == Cardinality({i \in DOMAIN seq : seq[i] = x})
SameBag(a, b) == \A x \in Range(a) \cup Range(b) : Count(a, x) = Count(b, x)

\* C1: once apply has run on a state that can_be_applied accepted,
\* can_be_applied on the same state returns false.
C1_Idempotence ==
  (last.op = "apply" /\ last.err = "") => ~can_be_applied(G0, last.st)

\* The case of C2: exactly one source and one sink, both access nodes of
\* arrays, of different arrays that have no proxy yet, and no WCR edge.
C2_Case ==
  LET srcs == find_source_nodes(OldState)
      snks == find_sink_nodes(OldState)
  IN  /\ last.op = "apply"
      /\ Len(srcs) = 1 /\ Len(snks) = 1
      /\ NodeOf(OldState, srcs[1]).type = "AccessNode"
      /\ NodeOf(OldState, snks[1]).type = "AccessNode"
      /\ NodeOf(OldState, srcs[1]).data # NodeOf(OldState, snks[1]).data
      /\ \A n \in {NodeOf(OldState, srcs[1]), NodeOf(OldState, snks[1])} :
           /\ DescOf(old, Top, n.data).kind = "Array"
           /\ ~HasArray(old, Top, FpgaName(n.data))
      /\ \A k \in DOMAIN old.states : \A i \in DOMAIN old.states[k] :
           \A e \in Range(old.states[k][i].edges) : ~e.wcr

\* C2: for a state L with one input array X, one output array Y and no WCR
\* edge, after apply the SDFG has the states pre_L and post_L, the catalog
\* has the transient FPGA_Global arrays fpga_X and fpga_Y, no access node of
\* the state names X or Y, and no access node's array and no schedule in
\* the state is Default.
C2_Postcondition ==
  C2_Case =>
    LET X == NodeOf(OldState, find_source_nodes(OldState)[1]).data
        Y == NodeOf(OldState, find_sink_nodes(OldState)[1]).data
    IN  /\ \E i \in DOMAIN states[Top] : states[Top][i].label = "pre_" \o OldState.label
        /\ \E i \in DOMAIN states[Top] : states[Top][i].label = "post_" \o OldState.label
        /\ \A d \in {X, Y} :
             /\ HasArray(G0, Top, FpgaName(d))
             /\ DescOf(G0, Top, FpgaName(d)).transient
             /\ DescOf(G0, Top, FpgaName(d)).storage = "FPGA_Global"
        /\ \A n \in AccessNodes(NewState) : n.data \notin {X, Y}
        /\ \A n \in AccessNodes(NewState) :
             HasArray(G0, Top, n.data) /\ Storage(G0, Top, n.data) # "Default"
        /\ \A n \in Range(NewState.nodes) : n.schedule # "Default"

\* The four conditions under which C3 says the check fails.
C3_StorageSet(G, S) ==
  \E n \in AccessNodes(S) : DescOf(G, Top, n.data).storage # "Default"

C3_FourDims(S) ==
  \E n \in Range(S.nodes) : n.type = "MapEntry" /\ n.dims > 3

C3_Disallowed(S) ==
  \E n \in Range(S.nodes) :
    n.type = "MapEntry"
      /\ n.schedule \in {"MPI", "GPU_Device", "FPGA_Device", "GPU_ThreadBlock"}

RECURSIVE C3_Enclosing(_, _)
C3_Enclosing(S, id) ==
  IF id = NoNode THEN {}
  ELSE {NodeOf(S, id)} \cup C3_Enclosing(S, NodeOf(S, id).scope)

C3_DeviceAncestor(S) ==
  \E n \in Range(S.nodes) :
    n.type = "MapEntry"
      /\ \E a \in C3_Enclosing(S, n.scope) :
           a.schedule \in {"GPU_Device", "FPGA_Device", "GPU_ThreadBlock"}

\* C3: can_be_applied returns false when an access node of the state has
\* non-Default storage, or a map has more than 3 dimensions, or a map has a
\* disallowed schedule, or a map lies in a scope with a device schedule; it
\* returns true when none of these holds; the check changes nothing.
C3_Gating ==
  last.op = "check" =>
    /\ last.ok = ~ \/ C3_StorageSet(G0, NewState)
                   \/ C3_FourDims(NewState)
                   \/ C3_Disallowed(NewState)
                   \/ C3_DeviceAncestor(NewState)
    /\ G0 = old

\* A check that fails for the number of dimensions alone.
C3_Witness ==
  /\ last.op = "check" /\ ~last.ok
  /\ C3_FourDims(NewState)
  /\ ~C3_StorageSet(G0, NewState) /\ ~C3_Disallowed(NewState)

\* The containers C4 says the pass demotes.
C4_Demotable(d) ==
  /\ d.transient
  /\ d.storage = "FPGA_Global"
  /\ d.name \notin shared_transients(old)
  /\ resolve_symbol_to_constant(d) # Unresolved

\* The arrays the trace of the access node id of state si of graph k reaches,
\* on its read side or on its write side.
C4_Traced(k, si, id) ==
  UNION {{t.read, t.write} : t \in Range(trace_nested_access(G0, k, si, id))}

\* C4: after fpga_global_to_local every array of the catalog that was
\* transient, FPGA_Global, not shared and of resolvable size is FPGA_Local,
\* and so is the array of every access node, at any depth, that traces to
\* it; every other array of the catalog is unchanged.
C4_Demotion ==
  last.op = "g2l" =>
    /\ DOMAIN arrays[Top] = DOMAIN old.arrays[Top]
    /\ \A i \in DOMAIN old.arrays[Top] :
         arrays[Top][i] =
           IF C4_Demotable(old.arrays[Top][i])
           THEN [old.arrays[Top][i] EXCEPT !.storage = "FPGA_Local"]
           ELSE old.arrays[Top][i]
    /\ \A k \in DOMAIN states : \A i \in DOMAIN states[k] :
         \A n \in AccessNodes(states[k][i]) :
           (\E d \in Range(old.arrays[Top]) :
              C4_Demotable(d) /\ d.name \in C4_Traced(k, i, n.id))
             => Storage(G0, k, n.data) = "FPGA_Local"
    /\ last.count = Cardinality({i \in DOMAIN old.arrays[Top] :
                                   C4_Demotable(old.arrays[Top][i])})

\* The catalog positions (from 1) of the FPGA_Global arrays before the pass.
C5_Globals ==
  {i \in DOMAIN old.arrays[Top] : old.arrays[Top][i].storage = "FPGA_Global"}

\* C5: fpga_rr_interleave_containers_to_banks gives every FPGA_Global array
\* the bank (catalog index) mod B and leaves the other arrays alone; it
\* returns B counts, entry b the number of arrays in bank b, whose sum is the
\* number of FPGA_Global arrays; five FPGA_Global arrays at the catalog
\* indices 0..4 and 4 banks give [2,1,1,1].
C5_Interleaving ==
  last.op = "rr" =>
    /\ DOMAIN arrays[Top] = DOMAIN old.arrays[Top]
    /\ \A i \in DOMAIN old.arrays[Top] :
         arrays[Top][i] =
           IF i \in C5_Globals
           THEN [old.arrays[Top][i] EXCEPT !.bank = (i - 1) % last.st]
           ELSE old.arrays[Top][i]
    /\ \A k \in DOMAIN arrays : k # Top => arrays[k] = old.arrays[k]
    /\ DOMAIN last.ret = 1..last.st
    /\ \A b \in 1..last.st :
         last.ret[b] = Cardinality({i \in C5_Globals : arrays[Top][i].bank = b - 1})
    /\ SumSeq(last.ret) = Cardinality(C5_Globals)
    /\ (C5_Globals = 1..5 /\ last.st = 4) => last.ret = <<2, 1, 1, 1>>

\* Five FPGA_Global arrays over four banks.
C5_Witness ==
  /\ last.op = "rr" /\ last.st = 4
  /\ C5_Globals = 1..5
  /\ last.ret = <<2, 1, 1, 1>>
  /\ arrays[Top][1].bank = 0 /\ arrays[Top][5].bank = 0

\* The control edges C6 expects: an edge that entered the state enters the
\* pre-state (when there is one), an edge that left it leaves the post-state.
C6_Moved(e, s, pre, post) ==
  [e EXCEPT !.dst = IF e.dst = s /\ pre # 0 THEN pre ELSE e.dst,
            !.src = IF e.src = s /\ post # 0 THEN post ELSE e.src]

C6_Expected(s, pre, post) ==
  [i \in DOMAIN old.cedges |-> C6_Moved(old.cedges[i], s, pre, post)]
    \o (IF pre # 0 THEN <<CE(pre, s, "true")>> ELSE <<>>)
    \o (IF post # 0 THEN <<CE(s, post, "true")>> ELSE <<>>)

\* The staging states that the last call of apply returned.
C6_New == {last.ret[1], last.ret[2]} \ {0}

\* C6: apply creates pre_<label> exactly when the state has source nodes and
\* post_<label> exactly when it has sink nodes; the control edges that
\* entered the state enter the pre-state, whose one edge to the state is the
\* state's only incoming edge; the control edges that left the state leave
\* the post-state, reached by the state's only outgoing edge; the other
\* control edges are unchanged.
C6_Staging ==
  last.op = "apply" =>
    /\ (last.ret[1] # 0) = (find_source_nodes(OldState) # <<>>)
    /\ (last.ret[2] # 0) = (find_sink_nodes(OldState) # <<>>)
    /\ DOMAIN states[Top] = DOMAIN old.states[Top] \cup C6_New
    /\ C6_New \cap DOMAIN old.states[Top] = {}
    /\ last.ret[1] # last.ret[2] \/ C6_New = {}
    /\ last.ret[1] # 0 =>
         /\ states[Top][last.ret[1]].label = "pre_" \o OldState.label
         /\ \A e \in Range(cedges) :
              e.dst = last.st => e = CE(last.ret[1], last.st, "true")
         /\ Count(cedges, CE(last.ret[1], last.st, "true")) = 1
    /\ last.ret[2] # 0 =>
         /\ states[Top][last.ret[2]].label = "post_" \o OldState.label
         /\ \A e \in Range(cedges) :
              e.src = last.st => e = CE(last.st, last.ret[2], "true")
         /\ Count(cedges, CE(last.st, last.ret[2], "true")) = 1
    /\ SameBag(cedges, C6_Expected(last.st, last.ret[1], last.ret[2]))

\* apply on a state with a conditional edge to itself: both staging states
\* are created and the loop runs from the post-state to the pre-state.
C6_Witness ==
  /\ last.op = "apply" /\ last.ret[1] # 0 /\ last.ret[2] # 0
  /\ \E e \in Range(old.cedges) : e.src = last.st /\ e.dst = last.st
  /\ \E e \in Range(cedges) :
       e.src = last.ret[2] /\ e.dst = last.ret[1] /\ e.cond = "again"

\* The names apply added to the catalog in its last call.
C7_Added == SubSeq(added, Len(old.added) + 1, Len(added))

\* The input nodes of the last call that are access nodes of arrays.
C7_ArrayInputs ==
  {r \in Range(input_nodes(old, last.st)) :
     /\ Deref(old, r).type = "AccessNode"
     /\ HasArray(old, Top, Deref(old, r).data)
     /\ DescOf(old, Top, Deref(old, r).data).kind = "Array"}

\* C7: for every input node that is an access node of an array, WCR input
\* or not, apply creates the transient FPGA_Global array fpga_<name> once and
\* adds the copy name -> fpga_<name> to the pre-state, so that every access
\* node of the pre-state, the state and the post-state names an array of the
\* catalog; a WCR input node stays in the state (unless it is an output
\* node as well, which the output step replaces), any other input node is
\* replaced.
C7_InputProxies ==
  last.op = "apply" =>
    /\ \A r \in C7_ArrayInputs :
         /\ HasArray(G0, Top, FpgaName(Deref(old, r).data))
         /\ DescOf(G0, Top, FpgaName(Deref(old, r).data)).transient
         /\ DescOf(G0, Top, FpgaName(Deref(old, r).data)).storage = "FPGA_Global"
         /\ Count(C7_Added, FpgaName(Deref(old, r).data)) = 1
         /\ last.ret[1] # 0
         /\ \E e \in Range(states[Top][last.ret[1]].edges) :
              /\ e.data = Deref(old, r).data
              /\ NodeOf(states[Top][last.ret[1]], e.src).data = Deref(old, r).data
              /\ NodeOf(states[Top][last.ret[1]], e.dst).data
                   = FpgaName(Deref(old, r).data)
         /\ IF r \in wcr_input_nodes(old, last.st)
            THEN \/ Deref(old, r) \in Range(NewState.nodes)
                 \/ r.id \in Range(output_nodes(old, last.st))
            ELSE ~HasNode(NewState, r.id)
    /\ \A i \in C6_New \cup {last.st} :
         \A n \in AccessNodes(states[Top][i]) : HasArray(G0, Top, n.data)

\* The SDFG of the last call of apply as lines 90-219 left it, before the
\* loop over the edges of the state, and the names with a proxy.
C8_Before ==
  ApplyPost(ApplyPre(old, last.st, input_nodes(old, last.st),
                     wcr_input_nodes(old, last.st)),
            old, last.st, output_nodes(old, last.st))

\* w is the width of an edge at the access node named conn inside sub.
C8_WidthAt(sub, conn, w) ==
  \E j \in DOMAIN states[sub] : \E n \in AccessNodes(states[sub][j]) :
    /\ n.data = conn
    /\ \E f \in Range(states[sub][j].edges) :
         (f.src = n.id \/ f.dst = n.id) /\ f.veclen = w

\* w is a width read inside a NestedSDFG node that edge e touches, at the
\* access node bound to the connector of e.
C8_Adjacent(e, w) ==
  \/ /\ NodeOf(NewState, e.dst).type = "NestedSDFG"
     /\ C8_WidthAt(NodeOf(NewState, e.dst).sub, e.dst_conn, w)
  \/ /\ NodeOf(NewState, e.src).type = "NestedSDFG"
     /\ C8_WidthAt(NodeOf(NewState, e.src).sub, e.src_conn, w)

\* C8: apply assigns a width in every case (it does not raise); every edge
\* of the state whose memlet named an array with a proxy names fpga_<name>
\* and has the width read inside the NestedSDFG node next to that edge at
\* the access node bound to the edge's connector; the other edges keep
\* their data name and width.
C8_Veclen ==
  last.op = "apply" =>
    /\ last.err = ""
    /\ DOMAIN NewState.edges = DOMAIN C8_Before.G.states[Top][last.st].edges
    /\ \A i \in DOMAIN NewState.edges :
         IF C8_Before.G.states[Top][last.st].edges[i].data \in C8_Before.fpga_data
         THEN /\ NewState.edges[i].data =
                   FpgaName(C8_Before.G.states[Top][last.st].edges[i].data)
              /\ C8_Adjacent(NewState.edges[i], NewState.edges[i].veclen)
         ELSE NewState.edges[i] = C8_Before.G.states[Top][last.st].edges[i]

\* The states fpga_update(sdfg, state, 0) visits from state si of graph k at
\* depth d, each with its graph and its depth.
RECURSIVE C9_Visited(_, _, _)
C9_Visited(k, si, d) ==
  {<<k, si, d>>}
    \cup UNION {UNION {C9_Visited(n.sub, j, d + 1) : j \in DOMAIN old.states[n.sub]} :
                  n \in {n \in Range(old.states[k][si].nodes) : n.type = "NestedSDFG"}}

\* The storage the rule of C9 gives at depth d.
C9_Rule(d, scoped) ==
  IF d >= 2 THEN "FPGA_Local" ELSE IF scoped THEN "FPGA_Local" ELSE "FPGA_Global"

\* The storages the rule gives array name of graph k at the access nodes
\* that were visited.
C9_Placements(k, name) ==
  {C9_Rule(v[3], n.scope # NoNode) :
     <<v, n>> \in {<<v, n>> \in UNION {{<<v, n>> : n \in AccessNodes(old.states[v[1]][v[2]])} :
                                        v \in C9_Visited(Top, last.st, 0)} :
                     v[1] = k /\ n.data = name}}

\* C9: fpga_update(sdfg, state, 0) gives every array that is Default and
\* named by a visited access node FPGA_Local at depth 2 or more, and below
\* that FPGA_Local when the node is in a scope and FPGA_Global when it is
\* not; every Default schedule of a visited node becomes FPGA_Device; other
\* storages and schedules are unchanged; afterwards no visited access node
\* has a Default array and no visited node a Default schedule.
C9_Update ==
  last.op = "update" =>
    /\ \A k \in DOMAIN arrays : \A i \in DOMAIN arrays[k] :
         IF old.arrays[k][i].storage = "Default"
              /\ C9_Placements(k, old.arrays[k][i].name) # {}
         THEN /\ arrays[k][i].storage \in C9_Placements(k, old.arrays[k][i].name)
              /\ arrays[k][i] = [old.arrays[k][i] EXCEPT !.storage = arrays[k][i].storage]
         ELSE arrays[k][i] = old.arrays[k][i]
    /\ \A k \in DOMAIN states : \A i \in DOMAIN states[k] :
         /\ DOMAIN states[k][i].nodes = DOMAIN old.states[k][i].nodes
         /\ states[k][i].edges = old.states[k][i].edges
         /\ \A j \in DOMAIN states[k][i].nodes :
              states[k][i].nodes[j] =
                IF old.states[k][i].nodes[j].schedule = "Default"
                     /\ \E v \in C9_Visited(Top, last.st, 0) : v[1] = k /\ v[2] = i
                THEN [old.states[k][i].nodes[j] EXCEPT !.schedule = "FPGA_Device"]
                ELSE old.states[k][i].nodes[j]
    /\ \A v \in C9_Visited(Top, last.st, 0) :
         \A n \in Range(states[v[1]][v[2]].nodes) :
           /\ n.schedule # "Default"
           /\ n.type = "AccessNode" => Storage(G0, v[1], n.data) # "Default"

\* fpga_update reaches an unscoped access node two levels down and makes
\* its array FPGA_Local, and an unscoped one at the top FPGA_Global.
C9_Witness ==
  /\ last.op = "update"
  /\ \E v \in C9_Visited(Top, last.st, 0) :
       /\ v[3] = 2
       /\ \E n \in AccessNodes(old.states[v[1]][v[2]]) :
            /\ n.scope = NoNode
            /\ DescOf(old, v[1], n.data).storage = "Default"
            /\ DescOf(G0, v[1], n.data).storage = "FPGA_Local"
  /\ \E n \in AccessNodes(OldState) :
       /\ DescOf(old, Top, n.data).storage = "Default"
       /\ DescOf(G0, Top, n.data).storage = "FPGA_Global"

\* C10: whatever states the driver applies the transformation to, no two
\* states of the SDFG have the same label and no name is added to the
\* catalog twice.
C10_UniqueNames ==
  /\ \A i, j \in DOMAIN states[Top] :
       i # j => states[Top][i].label # states[Top][j].label
  /\ \A i, j \in DOMAIN added : i # j => added[i] # added[j]

====
